---- MODULE Spec2Model ----
(***************************************************************************)
(* Model of LetsAIPythonREPLComponent                                      *)
(* (components/processing/letsai_python_repl_core.py).                     *)
(*                                                                         *)
(* A Python str is a sequence of one-character strings.  A Python value    *)
(* is a record [t |-> type tag, v |-> payload].  A Python dict is a        *)
(* function from keys (strs) to values.  An exception is a record          *)
(* [cls, msg, module]: its class, the parts of its message from the        *)
(* outermost f-string prefix inwards, and the module name interpolated     *)
(* into the message (<<>> when there is none).                             *)
(***************************************************************************)
EXTENDS Integers, Sequences, FiniteSets, TLC

VARIABLES global_imports, python_code, params, dynamic_variable,
          called, ret, globals_, layers, logs, attempts, executed,
          supplied, results,
          router, chroma, parser

\* the interpreter component: its inputs, what its last call did, the value
\* self.params had when that call began, and what the last two calls of
\* run_python_repl were given and returned
repl_vars == <<global_imports, python_code, params, dynamic_variable,
               called, ret, globals_, layers, logs, attempts, executed,
               supplied, results>>

\* the three other components, each the record of one instance's attributes
\* and of what its last calls did
other_vars == <<router, chroma, parser>>

vars == <<repl_vars, other_vars>>

\* a component that is not part of the flow under study
NotBuilt == [built |-> FALSE]

inputs == <<global_imports, python_code, params, dynamic_variable>>

(* ---------------------------- bounds ----------------------------------- *)

MaxPieces == 3

MaxNames == 3

MaxList == 2

(* ------------------------- Python values -------------------------------- *)

PyStr(s) == [t |-> "str", v |-> s]

PyInt(n) == [t |-> "int", v |-> n]

PyDict(f) == [t |-> "dict", v |-> f]

PyList(s) == [t |-> "list", v |-> s]

PyNone == [t |-> "NoneType", v |-> 0]

PyModule(name) == [t |-> "module", v |-> name]

EmptyDict == [k \in {} |-> PyNone]

\* an update that keeps the value a key already has
Update_keepOld(d, other) ==
  [k \in DOMAIN d \cup DOMAIN other |-> IF k \in DOMAIN d THEN d[k] ELSE other[k]]

\* dict.update(other): every key of other is set, the other keys are kept
Update(d, other) ==
  [k \in DOMAIN d \cup DOMAIN other |-> IF k \in DOMAIN other THEN other[k] ELSE d[k]]

\* d[key] = value
SetItem(d, key, value) ==
  [k \in DOMAIN d \cup {key} |-> IF k = key THEN value ELSE d[k]]

(* ------------------------- Python strings ------------------------------- *)

Whitespace == {" ", "\n"}

RECURSIVE LStrip(_)
LStrip(s) ==
  IF s = <<>> THEN <<>>
  ELSE IF Head(s) \in Whitespace THEN LStrip(Tail(s)) ELSE s

RECURSIVE RStrip(_)
RStrip(s) ==
  IF s = <<>> THEN <<>>
  ELSE IF s[Len(s)] \in Whitespace THEN RStrip(SubSeq(s, 1, Len(s) - 1)) ELSE s

\* str.strip()
Strip(s) == RStrip(LStrip(s))

\* str.split(","): the fields between the commas, empty ones included
RECURSIVE SplitFrom(_, _)
SplitFrom(s, cur) ==
  IF s = <<>> THEN <<cur>>
  ELSE IF Head(s) = "," THEN <<cur>> \o SplitFrom(Tail(s), <<>>)
  ELSE SplitFrom(Tail(s), Append(cur, Head(s)))

Split(s) == SplitFrom(s, <<>>)

(* --------------------------- exceptions --------------------------------- *)

\* the built-in exception hierarchy, as far as the handlers tell it apart
Parent(cls) ==
  CASE cls = "ModuleNotFoundError" -> "ImportError"
    [] cls = "ZeroDivisionError" -> "ArithmeticError"
    [] cls = "SystemExit" -> "BaseException"
    [] cls = "Exception" -> "BaseException"
    [] cls = "BaseException" -> "object"
    [] OTHER -> "Exception"

\* a handler that matches the exact class only
IsInstance_exact(cls, target) == cls = target

RECURSIVE IsInstance(_, _)
IsInstance(cls, target) ==
  IF cls = target THEN TRUE
  ELSE IF cls = "object" THEN FALSE
  ELSE IsInstance(Parent(cls), target)

Exc(cls, msg, module) == [cls |-> cls, msg |-> msg, module |-> module]

NoModule == <<>>

\* the reserved key of the evaluation context
ParamsKey == <<"p", "a", "r", "a", "m", "s">>

(* ----------------------- importlib.import_module ------------------------ *)

\* the modules installed in the interpreter
Importable == {<<"x">>, <<"y">>, ParamsKey}

\* importlib.import_module(name) finds the module
CanImport(name) == name \in Importable

(* ---------------------------- get_globals ------------------------------- *)

\* the filter without the strip of the kept element
RECURSIVE StripNonEmpty_nostrip(_)
StripNonEmpty_nostrip(fields) ==
  IF fields = <<>> THEN <<>>
  ELSE IF Strip(Head(fields)) # <<>>
       THEN <<Head(fields)>> \o StripNonEmpty_nostrip(Tail(fields))
       ELSE StripNonEmpty_nostrip(Tail(fields))

\* [module.strip() for module in ... if module.strip()]
RECURSIVE StripNonEmpty(_)
StripNonEmpty(fields) ==
  IF fields = <<>> THEN <<>>
  ELSE IF Strip(Head(fields)) # <<>>
       THEN <<Strip(Head(fields))>> \o StripNonEmpty(Tail(fields))
       ELSE StripNonEmpty(Tail(fields))

\* a loop that skips a module that cannot be imported and goes on
RECURSIVE ImportLoop_skip(_, _, _)
ImportLoop_skip(modules, global_dict, tried) ==
  IF modules = <<>>
  THEN [raised |-> FALSE, value |-> global_dict, attempts |-> tried]
  ELSE ImportLoop_skip(Tail(modules),
                       IF CanImport(Head(modules))
                       THEN SetItem(global_dict, Head(modules), PyModule(Head(modules)))
                       ELSE global_dict,
                       Append(tried, Head(modules)))

\* the for loop over modules: global_dict and the import_module calls made so
\* far; it stops at the first module that cannot be imported
RECURSIVE ImportLoop(_, _, _)
ImportLoop(modules, global_dict, tried) ==
  IF modules = <<>>
  THEN [raised |-> FALSE, value |-> global_dict, attempts |-> tried]
  ELSE IF CanImport(Head(modules))
       THEN ImportLoop(Tail(modules),
                       SetItem(global_dict, Head(modules), PyModule(Head(modules))),
                       Append(tried, Head(modules)))
       ELSE [raised |-> TRUE,
             exc |-> Exc("ImportError", <<"Could not import module">>, Head(modules)),
             attempts |-> Append(tried, Head(modules))]

ImportsLog(global_dict) == [tag |-> "[Imports] Successfully imported modules", keys |-> DOMAIN global_dict]

ErrorLog(prefix, e) == [tag |-> prefix, exc |-> e]

\* global_imports is a str, or a list whose elements all have a strip method
Strippable(gi) ==
  gi.t = "str" \/ (gi.t = "list" /\ \A i \in 1..Len(gi.v) : gi.v[i].t = "str")

\* the list modules built from a str or from a list of strs
Modules(gi) ==
  StripNonEmpty(IF gi.t = "str" THEN Split(gi.v)
                ELSE [i \in 1..Len(gi.v) |-> gi.v[i].v])

\* a shape check that raises ValueError
ShapeError_value(gi) ==
  Exc("ValueError", <<"global_imports must be either a string or a list">>, NoModule)

\* the exception for a global_imports the list comprehensions cannot handle:
\* the TypeError of the else branch, or the AttributeError of module.strip()
\* on a list element that is not a str
ShapeError(gi) ==
  IF gi.t = "list"
  THEN Exc("AttributeError", <<"object has no attribute 'strip'">>, NoModule)
  ELSE Exc("TypeError", <<"global_imports must be either a string or a list">>, NoModule)

\* the except clause of get_globals: log and re-raise
Reraise(e, tried) ==
  [raised |-> TRUE, exc |-> e, attempts |-> tried, logs |-> <<ErrorLog("[Imports Error]", e)>>]

\* the end of get_globals after the loop
Imported(r) ==
  IF r.raised THEN Reraise(r.exc, r.attempts)
  ELSE [raised |-> FALSE, value |-> r.value, attempts |-> r.attempts,
        logs |-> <<ImportsLog(r.value)>>]

\* get_globals(global_imports): what it returns or raises, what it logs and
\* the import_module calls it makes
get_globals(gi) ==
  IF Strippable(gi) THEN Imported(ImportLoop(Modules(gi), EmptyDict, <<>>))
  ELSE Reraise(ShapeError(gi), <<>>)

(* --------------------------- ast.literal_eval --------------------------- *)

Punct == {"{", "}", "[", "]", ":", ","}

Digits == {"1", "2"}

DigitVal(c) == IF c = "1" THEN 1 ELSE 2

Tok(k, v) == [k |-> k, v |-> v]

\* index of the first "'" of s, 0 when there is none
RECURSIVE QuoteAt(_, _)
QuoteAt(s, i) ==
  IF i > Len(s) THEN 0
  ELSE IF s[i] = "'" THEN i ELSE QuoteAt(s, i + 1)

\* a token put in front of the tokens of the rest of the text
Cons(tok, rest) ==
  IF rest.ok THEN [ok |-> TRUE, toks |-> <<tok>> \o rest.toks] ELSE [ok |-> FALSE]

\* the tokens of a literal: punctuation, one-digit integers and
\* single-quoted strings; blanks between tokens are skipped
RECURSIVE Lex(_)
RECURSIVE LexQuoted(_, _)
Lex(s) ==
  IF s = <<>> THEN [ok |-> TRUE, toks |-> <<>>]
  ELSE IF Head(s) \in Whitespace THEN Lex(Tail(s))
  ELSE IF Head(s) \in Punct THEN Cons(Tok("punct", <<Head(s)>>), Lex(Tail(s)))
  ELSE IF Head(s) \in Digits THEN Cons(Tok("int", DigitVal(Head(s))), Lex(Tail(s)))
  ELSE IF Head(s) = "'" THEN LexQuoted(Tail(s), QuoteAt(Tail(s), 1))
  ELSE [ok |-> FALSE]

\* a string literal whose closing quote is at index q of s (0: unterminated)
LexQuoted(s, q) ==
  IF q = 0 THEN [ok |-> FALSE]
  ELSE Cons(Tok("str", SubSeq(s, 1, q - 1)), Lex(SubSeq(s, q + 1, Len(s))))

IsAtom(tok) == tok.k \in {"int", "str"}

AtomValue(tok) == IF tok.k = "int" THEN PyInt(tok.v) ELSE PyStr(tok.v)

IsPunct(tok, c) == tok.k = "punct" /\ tok.v = <<c>>

\* the items of a dict display, 'key': atom separated by commas; a repeated
\* key keeps its last value
RECURSIVE DictBody(_, _)
RECURSIVE DictRest(_, _)
DictBody(toks, d) ==
  IF toks = <<>> THEN [ok |-> TRUE, value |-> PyDict(d)]
  ELSE IF Len(toks) >= 3 /\ toks[1].k = "str" /\ IsPunct(toks[2], ":") /\ IsAtom(toks[3])
       THEN DictRest(SubSeq(toks, 4, Len(toks)), SetItem(d, toks[1].v, AtomValue(toks[3])))
  ELSE [ok |-> FALSE]

DictRest(rest, d) ==
  IF rest = <<>> THEN [ok |-> TRUE, value |-> PyDict(d)]
  ELSE IF IsPunct(rest[1], ",") THEN DictBody(Tail(rest), d)
  ELSE [ok |-> FALSE]

\* the items of a list display, atoms separated by commas
RECURSIVE ListBody(_, _)
RECURSIVE ListRest(_, _)
ListBody(toks, l) ==
  IF toks = <<>> THEN [ok |-> TRUE, value |-> PyList(l)]
  ELSE IF IsAtom(toks[1]) THEN ListRest(Tail(toks), Append(l, AtomValue(toks[1])))
  ELSE [ok |-> FALSE]

ListRest(rest, l) ==
  IF rest = <<>> THEN [ok |-> TRUE, value |-> PyList(l)]
  ELSE IF IsPunct(rest[1], ",") THEN ListBody(Tail(rest), l)
  ELSE [ok |-> FALSE]

\* the value of a token sequence: an atom, a list of atoms or a dict from
\* strings to atoms
ParseTokens(toks) ==
  IF Len(toks) = 1
  THEN IF IsAtom(toks[1]) THEN [ok |-> TRUE, value |-> AtomValue(toks[1])]
       ELSE [ok |-> FALSE]
  ELSE IF IsPunct(toks[1], "{") /\ IsPunct(toks[Len(toks)], "}")
       THEN DictBody(SubSeq(toks, 2, Len(toks) - 1), EmptyDict)
  ELSE IF IsPunct(toks[1], "[") /\ IsPunct(toks[Len(toks)], "]")
       THEN ListBody(SubSeq(toks, 2, Len(toks) - 1), <<>>)
  ELSE [ok |-> FALSE]

ParseLexed(lx) ==
  IF ~lx.ok THEN [ok |-> FALSE]
  ELSE IF lx.toks = <<>> THEN [ok |-> FALSE]
  ELSE ParseTokens(lx.toks)

\* ast.literal_eval(text) on the literals the inputs are drawn from;
\* [ok |-> FALSE] when it raises (SyntaxError, or ValueError: malformed node
\* or string)
literal_eval(text) == ParseLexed(Lex(text))

(* --------------------------- PythonREPL.run ----------------------------- *)

\* python_code is known by what PythonREPL.run does with it: the text it
\* writes to standard output and the exception it ends with ("None" for a
\* normal end)
Program(stdout, raises) == [stdout |-> stdout, raises |-> raises, effect |-> "none"]

\* the program "print(len(params)); params.clear()", which works on the
\* object the reserved key is bound to
LenClear == [stdout |-> <<>>, raises |-> "None", effect |-> "len_clear"]

DigitChar(n) == <<"0", "1", "2", "3", "4", "5", "6", "7", "8", "9">>[n + 1]

\* len(obj) of a list or a dict
PyLen(obj) == IF obj.t = "list" THEN Len(obj.v) ELSE Cardinality(DOMAIN obj.v)

\* obj.clear(): the same object, emptied
Cleared(obj) == IF obj.t = "list" THEN PyList(<<>>) ELSE PyDict(EmptyDict)

\* print(len(obj)); obj.clear() on the object obj; len(None) is a TypeError
RunLenClear(obj) ==
  IF obj.t \in {"list", "dict"}
  THEN [stdout |-> <<DigitChar(PyLen(obj)), "\n">>, raises |-> "None", params |-> Cleared(obj)]
  ELSE [stdout |-> <<>>, raises |-> "TypeError", params |-> obj]

\* PythonREPL.run(code) with the globals g: the captured output, the
\* exception, and the object bound to g["params"] afterwards; the code runs
\* in the calling process on the very objects g holds
Run(code, g) ==
  IF code.effect = "len_clear" THEN RunLenClear(g[ParamsKey])
  ELSE [stdout |-> code.stdout, raises |-> code.raises, params |-> g[ParamsKey]]

UserFailure(cls) == Exc(cls, <<"raised by python_code">>, NoModule)

(* --------------------------- run_python_repl ---------------------------- *)

\* a loop that updates with the first item only
UpdateEach_firstOnly(g, items) ==
  IF items = <<>> THEN g
  ELSE IF Head(items).t = "dict" THEN Update(g, Head(items).v) ELSE g

\* a loop that stops at the first item that is not a dict
RECURSIVE UpdateEach_break(_, _)
UpdateEach_break(g, items) ==
  IF items = <<>> THEN g
  ELSE IF Head(items).t = "dict"
       THEN UpdateEach_break(Update(g, Head(items).v), Tail(items))
       ELSE g

\* globals_.update(item) for every dict item of a list, in order
RECURSIVE UpdateEach(_, _)
UpdateEach(g, items) ==
  IF items = <<>> THEN g
  ELSE UpdateEach(IF Head(items).t = "dict" THEN Update(g, Head(items).v) ELSE g,
                  Tail(items))

\* "Inject scalar variables from DictInput"
InjectParams(g, p) ==
  IF p.t = "list" THEN UpdateEach(g, p.v)
  ELSE IF p.t = "dict" THEN Update(g, p.v)
  ELSE g

ValidationMsg == "[Validation Error] Parsed dynamic_variable is not a dictionary."

ParsingMsg == "[Parsing Error] Failed to parse dynamic_variable"

\* the ValueError of line 141 around the exception the inner try ended with
ParsingError(inner) == Exc("ValueError", <<ParsingMsg>> \o inner.msg, NoModule)

\* the inner try block for the outcome of literal_eval: the ValueError it
\* ends with, or the updated globals_
Merge(g, parsed) ==
  IF ~parsed.ok
  THEN [raised |-> TRUE, exc |-> ParsingError(Exc("SyntaxError", <<"invalid syntax">>, NoModule))]
  ELSE IF parsed.value.t # "dict"
  THEN [raised |-> TRUE, exc |-> ParsingError(Exc("ValueError", <<ValidationMsg>>, NoModule))]
  ELSE [raised |-> FALSE, value |-> Update(g, parsed.value.v)]

\* "Parse MessageTextInput input string": a blank raw_input is skipped
ParseDynamic(g, raw_input) ==
  IF raw_input # <<>> THEN Merge(g, literal_eval(raw_input))
  ELSE [raised |-> FALSE, value |-> g]

\* the reserved key bound to the merged scalars instead of self.params
ExposeParams_merged(g, p) ==
  SetItem(g, ParamsKey, PyDict(InjectParams(EmptyDict, p)))

\* globals_["params"] = self.params
ExposeParams(g, p) == SetItem(g, ParamsKey, p)

GlobalsLog(g) == [tag |-> "[Globals] Injected variables", keys |-> DOMAIN g]

ExecutionLog == [tag |-> "[Execution] Code execution completed successfully"]

\* f"[... Error] {str(e)}"
ErrorMessage(prefix, e) == [msg |-> <<prefix>> \o e.msg, module |-> e.module]

MessageLog(m) == [tag |-> "error_message", message |-> m]

\* a payload with both keys populated
Data_both(key, value) == [k \in {"result", "error"} |-> value]

Data(key, value) == [k \in {key} |-> value]

ExpectedErrors == {"ImportError", "SyntaxError", "NameError", "TypeError", "ValueError"}

\* what a call has done so far: its log calls, its import_module calls, the
\* values of globals_ after each layer, whether PythonREPL.run was called
\* and the object self.params is now
Progress(sofar, tried, snaps, ran, self_params) ==
  [logs |-> sofar, attempts |-> tried, layers |-> snaps, executed |-> ran,
   params |-> self_params]

Outcome(kind, data, e, prog) ==
  [kind |-> kind, data |-> data, exc |-> e, logs |-> prog.logs,
   globals_ |-> IF prog.layers = <<>> THEN EmptyDict ELSE prog.layers[Len(prog.layers)],
   layers |-> prog.layers, attempts |-> prog.attempts, executed |-> prog.executed,
   params |-> prog.params]

Logged(prog, entry) ==
  Progress(Append(prog.logs, entry), prog.attempts, prog.layers, prog.executed, prog.params)

\* an except clause that returns the payload without the log call
Report_silent(m, e, prog) == Outcome("return", Data("error", m), e, prog)

\* the body of an except clause of run_python_repl
Report(m, e, prog) == Outcome("return", Data("error", m), e, Logged(prog, MessageLog(m)))

\* the two except clauses of run_python_repl, for an exception e raised in
\* its try block; an exception neither clause matches leaves the method
Handle(e, prog) ==
  IF \E c \in ExpectedErrors : IsInstance(e.cls, c)
  THEN Report(ErrorMessage("[Execution Error]", e), e, prog)
  ELSE IF IsInstance(e.cls, "Exception")
  THEN Report(ErrorMessage("[Unexpected Error]", e), e, prog)
  ELSE Outcome("raise", EmptyDict, e, prog)

\* a result with only its trailing whitespace removed
CleanResult_rstrip(result) == IF result # <<>> THEN RStrip(result) ELSE <<>>

\* result.strip() if result else ""
CleanResult(result) == IF result # <<>> THEN Strip(result) ELSE <<>>

\* lines 149-153 once PythonREPL.run has ended with ran
Ran(ran, sofar, tried, snaps) ==
  IF ran.raises # "None"
  THEN Handle(UserFailure(ran.raises), Progress(sofar, tried, snaps, TRUE, ran.params))
  ELSE Outcome("return", Data("result", CleanResult(ran.stdout)), UserFailure("None"),
               Progress(Append(sofar, ExecutionLog), tried, snaps, TRUE, ran.params))

\* lines 148-153: PythonREPL.run on the built context
Execute(code, g3, sofar, tried, snaps) == Ran(Run(code, g3), sofar, tried, snaps)

\* lines 143-145: the reserved key and the diagnostic of the final keys
Finish(g3, code, got, snaps) ==
  Execute(code, g3, Append(got.logs, GlobalsLog(g3)), got.attempts, Append(snaps, g3))

\* lines 132-141, after the scalars were injected into g1
AfterDynamic(dyn, g1, code, p, got) ==
  IF dyn.raised
  THEN Handle(dyn.exc, Progress(got.logs, got.attempts, <<got.value, g1>>, FALSE, p))
  ELSE Finish(ExposeParams(dyn.value, p), code, got, <<got.value, g1, dyn.value>>)

AfterScalars(g1, code, p, dv, got) ==
  AfterDynamic(ParseDynamic(g1, Strip(dv)), g1, code, p, got)

\* the try block after get_globals
AfterImports(got, code, p, dv) ==
  IF got.raised THEN Handle(got.exc, Progress(got.logs, got.attempts, <<>>, FALSE, p))
  ELSE AfterScalars(InjectParams(got.value, p), code, p, dv, got)

\* run_python_repl(): what it returns or raises, with the log calls, the
\* import_module calls, the values of globals_ after each layer and whether
\* PythonREPL.run was called
run_python_repl(gi, code, p, dv) == AfterImports(get_globals(gi), code, p, dv)

(* ------------------------------ inputs ---------------------------------- *)

X == <<"x">>

Quote(name) == <<"'">> \o name \o <<"'">>

\* the pieces import strings are made of: an installed module, a module that
\* is not installed, a blank, a comma
Pieces == {X, <<"z">>, <<" ">>, <<",">>}

RECURSIVE StringsUpTo(_)
StringsUpTo(n) ==
  IF n = 0 THEN {<<>>}
  ELSE LET shorter == StringsUpTo(n - 1)
       IN shorter \cup {piece \o rest : piece \in Pieces, rest \in shorter}

RECURSIVE SeqsUpTo(_, _)
SeqsUpTo(S, n) ==
  IF n = 0 THEN {<<>>}
  ELSE LET shorter == SeqsUpTo(S, n - 1)
       IN shorter \cup {<<e>> \o rest : e \in S, rest \in shorter}

NameElems == {PyStr(X), PyStr(<<" ", "x">>), PyStr(<<"z">>), PyStr(<<" ">>), PyInt(7)}

\* every shape of global_imports: strings, lists, and values that are neither
ImportInputs ==
  {PyStr(str) : str \in StringsUpTo(MaxPieces)}
    \cup {PyList(l) : l \in SeqsUpTo(NameElems, MaxNames)}
    \cup {PyNone, [t |-> "tuple", v |-> <<PyStr(X)>>]}

ImportSample ==
  {PyStr(X), PyStr(X \o <<",", " ">> \o ParamsKey), PyStr(<<>>), PyStr(<<"x", ",", "z">>),
   PyList(<<PyStr(X)>>), PyNone}

ScalarKeys == {X, ParamsKey}

ScalarValues == {PyInt(1), PyInt(2)}

ScalarDicts == UNION {[keys -> ScalarValues] : keys \in SUBSET ScalarKeys}

\* every shape of params: a dict, a list of dicts and other items, None
ParamInputs ==
  {PyDict(d) : d \in ScalarDicts}
    \cup {PyList(l) : l \in SeqsUpTo({PyDict(d) : d \in ScalarDicts} \cup {PyInt(5)}, MaxList)}
    \cup {PyNone}

ParamSample == {PyList(<<>>), PyDict([k \in {X} |-> PyInt(1)]), PyNone}

LiteralInputs ==
  {<<>>, <<" ">>, <<"{", "}">>,
   <<"{">> \o Quote(X) \o <<":", " ", "2", "}">>,
   <<" ", "{">> \o Quote(<<"y">>) \o <<":", "1", ",">> \o Quote(<<"y">>) \o <<":", "2", "}", " ">>,
   <<"{">> \o Quote(ParamsKey) \o <<":", "2", "}">>,
   <<"[", "1", ",", "2", "]">>, <<"2">>,
   <<"{">> \o Quote(X), <<"x">>}

LiteralSample == {<<"{", "}">>, <<"{">> \o Quote(X) \o <<":", " ", "2", "}">>}

Outputs == {<<>>, <<"2", "\n">>, <<" ", "2", "\n">>, <<"\n">>}

Failures == {"SyntaxError", "NameError", "TypeError", "ValueError", "ZeroDivisionError",
             "KeyError", "ModuleNotFoundError", "ImportError", "SystemExit"}

ProgramInputs ==
  {Program(out, "None") : out \in Outputs}
    \cup {Program(out, cls) : out \in {<<>>, <<"2", "\n">>}, cls \in Failures}

ProgramSample == {Program(<<"2", "\n">>, "None")}

\* programs that change an object of their context
MutatingPrograms == {LenClear}

NotCalled == [kind |-> "none"]

\* the inputs as the host binds them: one family varies the scalars and the
\* literal, one the import specification, one the program
Init ==
  /\ \/ /\ global_imports \in ImportSample
        /\ params \in ParamInputs
        /\ dynamic_variable \in LiteralInputs
        /\ python_code \in ProgramSample
     \/ /\ global_imports \in {PyStr(X)}
        /\ params \in ParamInputs
        /\ dynamic_variable \in LiteralSample
        /\ python_code \in MutatingPrograms
     \/ /\ global_imports \in ImportInputs
        /\ params \in ParamSample
        /\ dynamic_variable \in LiteralSample
        /\ python_code \in ProgramSample
     \/ /\ global_imports \in ImportSample
        /\ params \in ParamSample
        /\ dynamic_variable \in LiteralSample
        /\ python_code \in ProgramInputs
  /\ called = "none"
  /\ ret = NotCalled
  /\ globals_ = EmptyDict
  /\ layers = <<>>
  /\ logs = <<>>
  /\ attempts = <<>>
  /\ executed = FALSE
  /\ supplied = params
  /\ results = <<>>
  /\ router = NotBuilt
  /\ chroma = NotBuilt
  /\ parser = NotBuilt

(* ------------------------------ actions --------------------------------- *)

\* the state after get_globals ended with r
GetGlobalsEnds(r) ==
  /\ called' = "get_globals"
  /\ ret' = IF r.raised THEN [kind |-> "raise", exc |-> r.exc]
            ELSE [kind |-> "return", value |-> r.value]
  /\ logs' = r.logs
  /\ attempts' = r.attempts
  /\ globals_' = EmptyDict
  /\ layers' = <<>>
  /\ executed' = FALSE
  /\ supplied' = params
  /\ UNCHANGED <<inputs, results, other_vars>>

\* a direct call get_globals(self.global_imports)
CallGetGlobals == GetGlobalsEnds(get_globals(global_imports))

\* the calls of run_python_repl kept in results: the last one and the one
\* before it
LastTwo(calls, call) ==
  IF Len(calls) = 2 THEN <<calls[2], call>> ELSE Append(calls, call)

\* the state after run_python_repl ended with r
RunEnds(r) ==
  /\ called' = "run_python_repl"
  /\ ret' = [kind |-> r.kind, data |-> r.data, exc |-> r.exc]
  /\ logs' = r.logs
  /\ attempts' = r.attempts
  /\ globals_' = r.globals_
  /\ layers' = r.layers
  /\ executed' = r.executed
  /\ supplied' = params
  /\ params' = r.params
  /\ results' = LastTwo(results, [params |-> params, kind |-> r.kind, data |-> r.data])
  /\ UNCHANGED <<global_imports, python_code, dynamic_variable, other_vars>>

\* the component's output method, run_python_repl()
CallRunPythonRepl ==
  RunEnds(run_python_repl(global_imports, python_code, params, dynamic_variable))

Next == CallGetGlobals \/ CallRunPythonRepl

Spec == Init /\ [][Next]_vars

(* ------------------------------ properties ------------------------------ *)

RunReturned == called = "run_python_repl"

\* the exception class the program ends with on the scalars it was given
RaisedByCode ==
  IF python_code.effect = "len_clear"
  THEN IF supplied.t \in {"list", "dict"} THEN "None" ELSE "TypeError"
  ELSE python_code.raises

\* run_python_repl reached the reserved assignment: globals_ has all layers
ContextBuilt == RunReturned /\ Len(layers) = 4

\* the mappings among the scalars, in order
ScalarItems == IF supplied.t = "list" THEN supplied.v
               ELSE IF supplied.t = "dict" THEN <<supplied>> ELSE <<>>

Holders(k) == {i \in 1..Len(ScalarItems) :
                 ScalarItems[i].t = "dict" /\ k \in DOMAIN ScalarItems[i].v}

\* the left-to-right merge of the supplied scalar mappings: a key has the
\* value of the last mapping that holds it
NormalizedScalars ==
  [k \in {key \in ScalarKeys : Holders(key) # {}} |->
     ScalarItems[CHOOSE i \in Holders(k) : \A j \in Holders(k) : j <= i].v[k]]

LiteralGiven == Strip(dynamic_variable) # <<>>

LiteralParses == literal_eval(Strip(dynamic_variable)).ok

LiteralIsMapping == LiteralParses /\ literal_eval(Strip(dynamic_variable)).value.t = "dict"

LiteralMapping == IF LiteralGiven /\ LiteralIsMapping
                  THEN literal_eval(Strip(dynamic_variable)).value.v ELSE EmptyDict

\* C1: the context is the module map overlaid by the scalars, overlaid by
\* the parsed literal, overlaid by the reserved key: every key holds the
\* value of the last layer that has it, and "params" always holds the
\* reserved assignment.
C1_LayeringPrecedence ==
  ContextBuilt =>
    /\ DOMAIN globals_ = DOMAIN layers[1] \cup DOMAIN NormalizedScalars
                           \cup DOMAIN LiteralMapping \cup {ParamsKey}
    /\ \A k \in DOMAIN globals_ :
         globals_[k] = IF k = ParamsKey THEN supplied
                       ELSE IF k \in DOMAIN LiteralMapping THEN LiteralMapping[k]
                       ELSE IF k \in DOMAIN NormalizedScalars THEN NormalizedScalars[k]
                       ELSE layers[1][k]

\* modules {x: M}, scalars with x and "params", a literal with x
C1_Witness ==
  /\ ContextBuilt
  /\ X \in DOMAIN layers[1]
  /\ {X, ParamsKey} \subseteq DOMAIN NormalizedScalars
  /\ X \in DOMAIN LiteralMapping
  /\ NormalizedScalars[X] # LiteralMapping[X]
  /\ globals_[X] = LiteralMapping[X]
  /\ globals_[ParamsKey] = supplied

\* the configuration failures of the resolver and of the injector
ConfigFailure ==
  \/ global_imports.t \notin {"str", "list"}
  \/ Strippable(global_imports)
       /\ \E i \in 1..Len(Modules(global_imports)) : ~CanImport(Modules(global_imports)[i])
  \/ LiteralGiven /\ ~LiteralIsMapping

\* C2: a configuration failure of the resolver or of the injector leaves
\* run_python_repl as a raised error, never as a returned payload.
C2_ConfigFailuresRaise ==
  RunReturned /\ ConfigFailure => ret.kind = "raise"

UserCodeFailed == RunReturned /\ executed /\ RaisedByCode # "None"

ErrorPayload(prefix) ==
  /\ ret.kind = "return"
  /\ DOMAIN ret.data = {"error"}
  /\ ret.data["error"].msg = <<prefix, "raised by python_code">>

C4_AsClaimed ==
  ContextBuilt => globals_[ParamsKey] = PyDict(NormalizedScalars)

\* C4: context["params"] is the scalars as they were supplied: the mapping
\* itself (which is the normalized mapping) when one mapping was supplied,
\* the sequence itself when a sequence was supplied; overwritten scalar keys
\* do not change it.
C4_ParamsAsSupplied ==
  ContextBuilt =>
    /\ globals_[ParamsKey] = supplied
    /\ supplied.t = "dict" => globals_[ParamsKey] = PyDict(NormalizedScalars)
    /\ supplied.t = "list" => globals_[ParamsKey].t = "list"

\* a sequence of two mappings, with a scalar key overwritten by the literal
C4_Witness ==
  /\ ContextBuilt
  /\ supplied.t = "list" /\ Len(supplied.v) = 2
  /\ X \in DOMAIN NormalizedScalars /\ X \in DOMAIN LiteralMapping
  /\ globals_[X] # NormalizedScalars[X]
  /\ globals_[ParamsKey] = supplied

AllMappings == supplied.t = "list" /\ \A i \in 1..Len(supplied.v) : supplied.v[i].t = "dict"

\* C5: a sequence of mappings injects the same keys and values as the single
\* mapping that is its left-to-right merge.
C5_FormIndependent ==
  RunReturned /\ Len(layers) >= 2 /\ (AllMappings \/ supplied.t = "dict") =>
    layers[2] = Update(layers[1], NormalizedScalars)

\* two mappings that disagree on a key: the later one is injected
C5_Witness ==
  /\ RunReturned /\ Len(layers) >= 2 /\ AllMappings
  /\ Len(supplied.v) = 2
  /\ X \in DOMAIN supplied.v[1].v /\ X \in DOMAIN supplied.v[2].v
  /\ supplied.v[1].v[X] # supplied.v[2].v[X]
  /\ X \notin DOMAIN layers[1]
  /\ layers[2][X] = supplied.v[2].v[X]

BadScalarShape ==
  \/ supplied.t \notin {"dict", "list"}
  \/ supplied.t = "list" /\ \E i \in 1..Len(supplied.v) : supplied.v[i].t # "dict"

ImportsResolve ==
  /\ Strippable(global_imports)
  /\ \A i \in 1..Len(Modules(global_imports)) : CanImport(Modules(global_imports)[i])

ReportedParts ==
  IF ret.kind = "raise" THEN {ret.exc.msg[i] : i \in 1..Len(ret.exc.msg)}
  ELSE IF DOMAIN ret.data = {"error"}
       THEN {ret.data["error"].msg[i] : i \in 1..Len(ret.data["error"].msg)}
       ELSE {}

\* C7: a literal that parses to something that is not a mapping is reported
\* as a validation failure and not as the parse failure reported for a
\* literal that does not parse; nothing of the literal reaches the context.
C7_ValidationDistinct ==
  RunReturned /\ ImportsResolve /\ LiteralGiven /\ ~LiteralIsMapping =>
    /\ LiteralParses => ValidationMsg \in ReportedParts /\ ParsingMsg \notin ReportedParts
    /\ ~LiteralParses => ParsingMsg \in ReportedParts /\ ValidationMsg \notin ReportedParts
    /\ Len(layers) = 2 /\ globals_ = layers[2]

Blank(c) == c \in Whitespace

\* the trimmed, non-empty names of the fields of s between separators
FieldNames(s, seps) ==
  {SubSeq(s, i, j) : <<i, j>> \in
     {ij \in (1..Len(s)) \X (1..Len(s)) :
        /\ ij[1] <= ij[2]
        /\ \A q \in ij[1]..ij[2] : s[q] \notin seps
        /\ ~Blank(s[ij[1]]) /\ ~Blank(s[ij[2]])
        /\ \E a \in 0..(ij[1] - 1) :
             /\ a = 0 \/ s[a] \in seps
             /\ \A q \in (a + 1)..(ij[1] - 1) : Blank(s[q])
        /\ \E b \in (ij[2] + 1)..(Len(s) + 1) :
             /\ b = Len(s) + 1 \/ s[b] \in seps
             /\ \A q \in (ij[2] + 1)..(b - 1) : Blank(s[q])}}

StrOrListOfStr ==
  \/ global_imports.t = "str"
  \/ global_imports.t = "list"
       /\ \A i \in 1..Len(global_imports.v) : global_imports.v[i].t = "str"

\* the names an import specification gives
GivenNames ==
  IF global_imports.t = "str" THEN FieldNames(global_imports.v, {","})
  ELSE UNION {FieldNames(global_imports.v[i].v, {}) : i \in 1..Len(global_imports.v)}

GetGlobalsReturned == called = "get_globals"

\* C8: for a string or a list of strings whose non-blank names can all be
\* imported, get_globals returns a mapping whose keys are exactly the
\* trimmed, non-empty names given.
C8_KeySet ==
  GetGlobalsReturned /\ StrOrListOfStr /\ GivenNames \subseteq Importable =>
    /\ ret.kind = "return"
    /\ DOMAIN ret.value = GivenNames

\* a string with more fields than names: a blank or a repeated entry
C8_Witness ==
  /\ GetGlobalsReturned /\ global_imports.t = "str"
  /\ ret.kind = "return"
  /\ DOMAIN ret.value = {X}
  /\ Len(Split(global_imports.v)) = 3

FirstFailing ==
  CHOOSE i \in 1..Len(Modules(global_imports)) :
    /\ ~CanImport(Modules(global_imports)[i])
    /\ \A j \in 1..(i - 1) : CanImport(Modules(global_imports)[j])

\* C9: when a name cannot be imported get_globals raises an ImportError
\* naming the first such module and returns no mapping; the names before it
\* were imported, the names after it are not tried.
C9_AllOrNothing ==
  GetGlobalsReturned /\ StrOrListOfStr /\ ~ImportsResolve =>
    /\ ret.kind = "raise"
    /\ ret.exc.cls = "ImportError"
    /\ ret.exc.module = Modules(global_imports)[FirstFailing]
    /\ attempts = SubSeq(Modules(global_imports), 1, FirstFailing)

\* three names, the second one fails
C9_Witness ==
  /\ GetGlobalsReturned /\ StrOrListOfStr
  /\ Len(Modules(global_imports)) = 3
  /\ CanImport(Modules(global_imports)[3])
  /\ ret.kind = "raise"
  /\ Len(attempts) = 2

\* C10 as claimed: every input that is not a string or a sequence of name
\* strings fails with a TypeError before any import.
C10_AsClaimed ==
  GetGlobalsReturned /\ ~StrOrListOfStr =>
    ret.kind = "raise" /\ ret.exc.cls = "TypeError" /\ attempts = <<>>

\* C10: an input that is neither a str nor a list fails with a TypeError and
\* a list with an element that is not a str fails with an AttributeError;
\* both are raised from get_globals before any import.
C10_ShapeErrors ==
  GetGlobalsReturned /\ ~StrOrListOfStr =>
    /\ ret.kind = "raise"
    /\ ret.exc.cls = IF global_imports.t = "list" THEN "AttributeError" ELSE "TypeError"
    /\ attempts = <<>>

C10_Witness ==
  /\ GetGlobalsReturned
  /\ global_imports = PyNone
  /\ ret.kind = "raise" /\ ret.exc.cls = "TypeError"
  /\ attempts = <<>>

\* C11: every value run_python_repl returns is a payload with exactly one of
\* the keys "result" and "error".
C11_ExactlyOneKey ==
  RunReturned /\ ret.kind = "return" =>
    DOMAIN ret.data = {"result"} \/ DOMAIN ret.data = {"error"}

\* an error payload from the import stage, before any context exists
C11_Witness ==
  /\ RunReturned /\ ret.kind = "return"
  /\ layers = <<>> /\ ~executed
  /\ DOMAIN ret.data = {"error"}

\* the text the program writes to standard output
Captured ==
  IF python_code.effect = "len_clear" THEN <<DigitChar(PyLen(supplied)), "\n">>
  ELSE python_code.stdout

Succeeded == RunReturned /\ ret.kind = "return" /\ DOMAIN ret.data = {"result"}

AllBlank(out, from, to) == \A q \in from..to : Blank(out[q])

\* res is out without its trailing whitespace
RightTrimmed(out, res) ==
  \E n \in 0..Len(out) :
    /\ res = SubSeq(out, 1, n)
    /\ AllBlank(out, n + 1, Len(out))
    /\ n = 0 \/ ~Blank(out[n])

\* res is out without its leading and trailing whitespace
BothTrimmed(out, res) ==
  \E i \in 1..(Len(out) + 1) : \E j \in 0..Len(out) :
    /\ res = SubSeq(out, i, j)
    /\ AllBlank(out, 1, i - 1) /\ AllBlank(out, j + 1, Len(out))
    /\ res = <<>> \/ (~Blank(out[i]) /\ ~Blank(out[j]))

\* C12 as claimed: the success payload is the captured output with only its
\* trailing whitespace removed, leading whitespace kept.
C12_AsClaimed ==
  Succeeded => RightTrimmed(Captured, ret.data["result"])

\* C12: the success payload is the captured output with its leading and its
\* trailing whitespace removed, and the empty string when there was no output.
C12_BothEndsStripped ==
  Succeeded =>
    /\ BothTrimmed(Captured, ret.data["result"])
    /\ Captured = <<>> => ret.data["result"] = <<>>

\* output that begins with a blank
C12_Witness ==
  /\ Succeeded
  /\ Captured = <<" ", "2", "\n">>
  /\ ret.data["result"] = <<"2">>

\* C13: the second of two calls of run_python_repl returns the payload the
\* first one returned, and a call leaves the configured scalars as they were.
C13_NoLeak ==
  RunReturned /\ Len(results) = 2 =>
    /\ results[2].kind = results[1].kind
    /\ results[2].data = results[1].data
    /\ results[2].params = results[1].params
    /\ params = results[2].params

TagsOf(entries) == [i \in 1..Len(entries) |-> entries[i].tag]

\* C18: a run that ends with an error payload has logged the message of the
\* payload before it returns; a successful run logs the imports, then the
\* keys of the final context, then the completion, in this order.
C18_Diagnostics ==
  /\ RunReturned /\ ret.kind = "return" /\ DOMAIN ret.data = {"error"} =>
       /\ logs # <<>>
       /\ logs[Len(logs)] = MessageLog(ret.data["error"])
  /\ Succeeded =>
       /\ TagsOf(logs) = <<"[Imports] Successfully imported modules",
                           "[Globals] Injected variables",
                           "[Execution] Code execution completed successfully">>
       /\ logs[1].keys = DOMAIN layers[1]
       /\ logs[2].keys = DOMAIN layers[4]

\* a failure of the code, logged after the imports and the injected keys
C18_Witness ==
  /\ RunReturned /\ executed
  /\ DOMAIN ret.data = {"error"}
  /\ Len(logs) = 3
  /\ logs[2].tag = "[Globals] Injected variables"
  /\ logs[3] = MessageLog(ret.data["error"])

(* ======================================================================= *)
(* LetsAIConditionalRouterComponent                                        *)
(* (components/logic/letsai_conditional_router.py).                        *)
(*                                                                         *)
(* The variable router is one instance: its inputs (input_text,            *)
(* match_text, operator, case_sensitive, true_output, false_output,        *)
(* message), its status, its log, the outputs stopped, and of each output   *)
(* method the value it returned last and the output it asked to stop.      *)
(* The texts are sequences of one-character strings.                       *)
(* ======================================================================= *)

\* the longest input_text and match_text
MaxText == 2

\* the interpreter component while another component is studied
ReplIdle ==
  /\ global_imports = PyStr(X)
  /\ python_code = Program(<<>>, "None")
  /\ params = PyNone
  /\ dynamic_variable = <<>>
  /\ called = "none"
  /\ ret = NotCalled
  /\ globals_ = EmptyDict
  /\ layers = <<>>
  /\ logs = <<>>
  /\ attempts = <<>>
  /\ executed = FALSE
  /\ supplied = params
  /\ results = <<>>

\* str.lower() on the letters of the texts
LowerChar(c) == IF c = "A" THEN "a" ELSE c

Lower(s) == [i \in 1..Len(s) |-> LowerChar(s[i])]

StartsWith(s, m) == Len(m) <= Len(s) /\ SubSeq(s, 1, Len(m)) = m

EndsWith(s, m) ==
  Len(m) <= Len(s) /\ SubSeq(s, Len(s) - Len(m) + 1, Len(s)) = m

Contains(s, m) ==
  \E i \in 0..(Len(s) - Len(m)) : SubSeq(s, i + 1, i + Len(m)) = m

\* the comparison of two texts under one of the string operations the
\* component supports
Compare(input, match, op) ==
  CASE op = "equals" -> input = match
    [] op = "not equals" -> input # match
    [] op = "contains" -> Contains(input, match)
    [] op = "starts with" -> StartsWith(input, match)
    [] op = "ends with" -> EndsWith(input, match)

\* self.evaluate_condition(input_text, match_text, operator,
\* case_sensitive=...): the inherited comparison
evaluate_condition(input, match, op, case) ==
  IF case THEN Compare(input, match, op)
  ELSE Compare(Lower(input), Lower(match), op)

\* Message(content=...)
MessageOf(content) == [t |-> "Message", content |-> content]

\* self.iterate_and_stop_once(route): the inherited call that stops an output
iterate_and_stop_once(self, method, route) ==
  [self EXCEPT !.stopped = @ \cup {route},
               !.asked = [@ EXCEPT ![method] = route]]

\* the component after an output method returned value
Returns(self, method, value) ==
  [self EXCEPT !.returned = [@ EXCEPT ![method] = value]]

\* self.log(entry)
Log(self, entry) == [self EXCEPT !.log = Append(@, entry)]

\* self.status = output
SetStatus(self, output) == [self EXCEPT !.status = PyStr(output)]

\* true_response with a branch that always takes the true path
true_response_always(self, result) ==
  Returns(iterate_and_stop_once(
            Log(SetStatus(self, self.true_output),
                [tag |-> "Condition met. Routing to True", arg |-> self.true_output]),
            "true_response", "false_result"),
          "true_response", PyStr(self.true_output))

\* true_response once the condition evaluated to result
true_response(self, result) ==
  IF result
  THEN Returns(iterate_and_stop_once(
                 Log(SetStatus(self, self.true_output),
                     [tag |-> "Condition met. Routing to True", arg |-> self.true_output]),
                 "true_response", "false_result"),
               "true_response", PyStr(self.true_output))
  ELSE Returns(iterate_and_stop_once(
                 Log(self, [tag |-> "Condition not met. Routing to fallback from true_response.",
                            arg |-> <<>>]),
                 "true_response", "true_result"),
               "true_response", MessageOf(self.message))

\* false_response stopping its own output when the condition is false
false_response_stopsOwn(self, result) ==
  IF ~result
  THEN Returns(iterate_and_stop_once(
                 Log(SetStatus(self, self.false_output),
                     [tag |-> "Condition NOT met. Routing to False", arg |-> self.false_output]),
                 "false_response", "false_result"),
               "false_response", PyStr(self.false_output))
  ELSE Returns(iterate_and_stop_once(
                 Log(self, [tag |-> "Condition was True. Routing to fallback from false_response.",
                            arg |-> <<>>]),
                 "false_response", "false_result"),
               "false_response", MessageOf(self.message))

\* false_response once the condition evaluated to result
false_response(self, result) ==
  IF ~result
  THEN Returns(iterate_and_stop_once(
                 Log(SetStatus(self, self.false_output),
                     [tag |-> "Condition NOT met. Routing to False", arg |-> self.false_output]),
                 "false_response", "true_result"),
               "false_response", PyStr(self.false_output))
  ELSE Returns(iterate_and_stop_once(
                 Log(self, [tag |-> "Condition was True. Routing to fallback from false_response.",
                            arg |-> <<>>]),
                 "false_response", "false_result"),
               "false_response", MessageOf(self.message))

\* the condition on the inputs of a component
Condition(self) ==
  evaluate_condition(self.input_text, self.match_text, self.operator,
                     self.case_sensitive)

Letters == {"a", "A"}

Texts == SeqsUpTo(Letters, MaxText)

Operators == {"equals", "not equals", "contains", "starts with", "ends with"}

Methods == {"true_response", "false_response"}

Nothing == [t |-> "nothing"]

\* a component as the host constructs it and binds its inputs
Routers ==
  [built : {TRUE},
   input_text : Texts, match_text : Texts, operator : Operators,
   case_sensitive : BOOLEAN,
   true_output : {<<"y">>, <<"m">>}, false_output : {<<"n">>},
   message : {<<"m">>},
   status : {Nothing},
   log : {<<>>},
   stopped : {{}},
   asked : {[m \in Methods |-> "none"]},
   returned : {[m \in Methods |-> Nothing]}]

InitRouter ==
  /\ ReplIdle
  /\ router \in Routers
  /\ chroma = NotBuilt
  /\ parser = NotBuilt

\* the host runs the method of output "true_result" (the log kept is that of
\* the run in progress)
CallTrueResponse ==
  /\ router' = true_response([router EXCEPT !.log = <<>>], Condition(router))
  /\ UNCHANGED <<repl_vars, chroma, parser>>

\* the host runs the method of output "false_result"
CallFalseResponse ==
  /\ router' = false_response([router EXCEPT !.log = <<>>], Condition(router))
  /\ UNCHANGED <<repl_vars, chroma, parser>>

NextRouter == CallTrueResponse \/ CallFalseResponse

SpecRouter == InitRouter /\ [][NextRouter]_vars

Called(method) == router.returned[method] # Nothing

\* C14: true_response returns the configured true_output exactly when the
\* condition on the inputs is true and the fallback message otherwise;
\* false_response returns the configured false_output exactly when the
\* condition is false and the fallback message otherwise; so once both have
\* run, exactly one of them has returned its configured output.
C14_Routing ==
  /\ Called("true_response") =>
       /\ router.returned["true_response"] = PyStr(router.true_output)
            <=> Condition(router)
       /\ ~Condition(router) =>
            router.returned["true_response"] = MessageOf(router.message)
  /\ Called("false_response") =>
       /\ router.returned["false_response"] = PyStr(router.false_output)
            <=> ~Condition(router)
       /\ Condition(router) =>
            router.returned["false_response"] = MessageOf(router.message)
  /\ (Called("true_response") /\ Called("false_response")) =>
       (router.returned["true_response"] = PyStr(router.true_output))
         # (router.returned["false_response"] = PyStr(router.false_output))

\* both methods have run on inputs whose condition is false although the
\* texts differ only in case, the fallback text equal to the true output
C14_Witness ==
  /\ Called("true_response") /\ Called("false_response")
  /\ router.input_text = <<"a", "A">> /\ router.match_text = <<"A">>
  /\ router.operator = "starts with" /\ router.case_sensitive
  /\ router.true_output = router.message
  /\ router.returned["false_response"] = PyStr(router.false_output)

\* the output whose branch matches the condition
Matching(self) == IF Condition(self) THEN "true_result" ELSE "false_result"

Other(route) == IF route = "true_result" THEN "false_result" ELSE "true_result"

\* C19: whichever output method runs, it asks to stop "false_result" when
\* the condition is true and "true_result" when it is false; so after any
\* sequence of calls the output matching the condition is not stopped and
\* the two outputs are not both stopped.
C19_StoppedBranch ==
  /\ \A m \in Methods : Called(m) => router.asked[m] = Other(Matching(router))
  /\ Matching(router) \notin router.stopped
  /\ router.stopped # {"true_result", "false_result"}
  /\ (\E m \in Methods : Called(m)) => router.stopped = {Other(Matching(router))}

\* both methods have run on a true condition
C19_Witness ==
  /\ router.built
  /\ Condition(router)
  /\ router.asked = [m \in Methods |-> "false_result"]
  /\ router.stopped = {"false_result"}

(* ======================================================================= *)
(* LetsAIChromaVectorStoreComponent                                        *)
(* (components/vectorstores/letsai_chroma.py).                             *)
(*                                                                         *)
(* The variable chroma is one instance: the attributes set_attributes      *)
(* binds, the cached vector store, the status, the collection behind the   *)
(* store, and what the last call did: the exception it raised, the value   *)
(* it returned, its log, the searches it sent to the store and what the    *)
(* store answered; given is the params dict of the last set_attributes,    *)
(* reused tells whether the last search found a store cached, builds       *)
(* counts the stores built.  Scores and thresholds are counted in tenths.  *)
(* ======================================================================= *)

(* ------------------------------ json.loads ------------------------------ *)

DoubleQuote == "\""

\* index of the first '"' of s, 0 when there is none
RECURSIVE DoubleQuoteAt(_, _)
DoubleQuoteAt(s, i) ==
  IF i > Len(s) THEN 0
  ELSE IF s[i] = DoubleQuote THEN i ELSE DoubleQuoteAt(s, i + 1)

\* the tokens of a JSON text: punctuation, numbers of the digits 1 and 2 and
\* double-quoted strings; blanks between tokens are skipped
RECURSIVE JsonLex(_)
RECURSIVE JsonLexQuoted(_, _)
RECURSIVE JsonLexNumber(_, _)
JsonLex(s) ==
  IF s = <<>> THEN [ok |-> TRUE, toks |-> <<>>]
  ELSE IF Head(s) \in Whitespace THEN JsonLex(Tail(s))
  ELSE IF Head(s) \in Punct THEN Cons(Tok("punct", <<Head(s)>>), JsonLex(Tail(s)))
  ELSE IF Head(s) \in Digits THEN JsonLexNumber(Tail(s), DigitVal(Head(s)))
  ELSE IF Head(s) = DoubleQuote THEN JsonLexQuoted(Tail(s), DoubleQuoteAt(Tail(s), 1))
  ELSE [ok |-> FALSE]

\* a number whose digits read so far make n
JsonLexNumber(s, n) ==
  IF s # <<>> /\ Head(s) \in Digits THEN JsonLexNumber(Tail(s), 10 * n + DigitVal(Head(s)))
  ELSE Cons(Tok("int", n), JsonLex(s))

JsonLexQuoted(s, q) ==
  IF q = 0 THEN [ok |-> FALSE]
  ELSE Cons(Tok("str", SubSeq(s, 1, q - 1)), JsonLex(SubSeq(s, q + 1, Len(s))))

\* the members of a JSON object, "key": atom separated by commas; a
\* repeated key keeps its last value
RECURSIVE JsonMembers(_, _)
JsonMembers(toks, d) ==
  IF Len(toks) >= 3 /\ toks[1].k = "str" /\ IsPunct(toks[2], ":") /\ IsAtom(toks[3])
  THEN IF Len(toks) = 3
       THEN [ok |-> TRUE, value |-> PyDict(SetItem(d, toks[1].v, AtomValue(toks[3])))]
       ELSE IF IsPunct(toks[4], ",")
            THEN JsonMembers(SubSeq(toks, 5, Len(toks)),
                             SetItem(d, toks[1].v, AtomValue(toks[3])))
            ELSE [ok |-> FALSE]
  ELSE [ok |-> FALSE]

\* the elements of a JSON array, atoms separated by commas
RECURSIVE JsonElements(_, _)
JsonElements(toks, l) ==
  IF toks # <<>> /\ IsAtom(toks[1])
  THEN IF Len(toks) = 1
       THEN [ok |-> TRUE, value |-> PyList(Append(l, AtomValue(toks[1])))]
       ELSE IF IsPunct(toks[2], ",")
            THEN JsonElements(SubSeq(toks, 3, Len(toks)), Append(l, AtomValue(toks[1])))
            ELSE [ok |-> FALSE]
  ELSE [ok |-> FALSE]

\* the value of a token sequence: an atom, an array of atoms or an object
\* from strings to atoms
JsonTokens(toks) ==
  IF Len(toks) = 1
  THEN IF IsAtom(toks[1]) THEN [ok |-> TRUE, value |-> AtomValue(toks[1])]
       ELSE [ok |-> FALSE]
  ELSE IF IsPunct(toks[1], "{") /\ IsPunct(toks[Len(toks)], "}")
       THEN IF Len(toks) = 2 THEN [ok |-> TRUE, value |-> PyDict(EmptyDict)]
            ELSE JsonMembers(SubSeq(toks, 2, Len(toks) - 1), EmptyDict)
  ELSE IF IsPunct(toks[1], "[") /\ IsPunct(toks[Len(toks)], "]")
       THEN IF Len(toks) = 2 THEN [ok |-> TRUE, value |-> PyList(<<>>)]
            ELSE JsonElements(SubSeq(toks, 2, Len(toks) - 1), <<>>)
  ELSE [ok |-> FALSE]

JsonLexed(lx) ==
  IF ~lx.ok THEN [ok |-> FALSE]
  ELSE IF lx.toks = <<>> THEN [ok |-> FALSE]
  ELSE JsonTokens(lx.toks)

\* json.loads(text) on the texts the filters are drawn from;
\* [ok |-> FALSE] when it raises json.JSONDecodeError
json_loads(text) == JsonLexed(JsonLex(text))

\* bool(value) of a Python value
Truthy(value) ==
  CASE value.t = "NoneType" -> FALSE
    [] value.t \in {"int", "float"} -> value.v # 0
    [] value.t = "dict" -> DOMAIN value.v # {}
    [] OTHER -> value.v # <<>>

(* ----------------------------- set_attributes --------------------------- *)

\* an attribute no statement has assigned yet
Unset == [t |-> "unset", v |-> 0]

\* a float, in tenths
PyFloat(n) == [t |-> "float", v |-> n]

\* params.get(key, default), given being the dict params
Get(given, key, default) ==
  IF key \in DOMAIN given THEN given[key] ELSE default

\* what a call leaves behind for the next one to read: which method ran and
\* the exception it raised ("None" when it returned)
Ended(self, method, raised, value) ==
  [self EXCEPT !.called = method, !.raised = raised, !.ret = value]

\* super().set_attributes(params): the inherited binding of the inputs the
\* search reads
BindInputs(self, given) ==
  [self EXCEPT !.search_query = given["search_query"],
               !.search_type = given["search_type"],
               !.number_of_results = given["number_of_results"]]

\* self.simil_threshold = params.get("sim_threshold", 0.0), and the return
StoreThreshold(self, given) ==
  Ended([self EXCEPT !.simil_threshold = Get(given, "sim_threshold", PyFloat(0))],
        "set_attributes", "None", PyNone)

\* the try statement around json.loads(raw_filter), loaded being what
\* json.loads did
StoreFilter(self, given, loaded) ==
  IF loaded.ok
  THEN StoreThreshold([self EXCEPT !.advance_search_filter = loaded.value], given)
  ELSE Ended(self, "set_attributes", "ValueError", Nothing)

\* the statements after super().set_attributes(params)
ParseFilter(self, given, raw_filter) ==
  IF raw_filter # <<>>
  THEN StoreFilter(self, given, json_loads(raw_filter))
  ELSE StoreThreshold([self EXCEPT !.advance_search_filter = PyNone], given)

\* set_attributes(params)
set_attributes(self, given) ==
  ParseFilter(BindInputs(self, given), given, Get(given, "search_filter", <<>>))

(* ----------------------------- the vector store ------------------------- *)

\* the largest number of documents the store ranks for a query
MaxDocs == 2

\* a document of the collection
Document(text, label) ==
  [page_content |-> text, metadata |-> [k \in {<<"a">>} |-> PyInt(label)]]

\* a document with its relevance score for the query
Hit(doc, score) == [doc |-> doc, score |-> score]

\* the store keeps the documents whose metadata carry every item of the
\* filter; without a filter it keeps all
Matches(doc, filt) ==
  \/ filt = PyNone
  \/ /\ filt.t = "dict"
     /\ \A key \in DOMAIN filt.v :
          key \in DOMAIN doc.metadata /\ doc.metadata[key] = filt.v[key]

RECURSIVE Filtered(_, _)
Filtered(ranking, filt) ==
  IF ranking = <<>> THEN <<>>
  ELSE IF Matches(Head(ranking).doc, filt)
       THEN <<Head(ranking)>> \o Filtered(Tail(ranking), filt)
       ELSE Filtered(Tail(ranking), filt)

FirstK(hits, k) == SubSeq(hits, 1, IF k < Len(hits) THEN k ELSE Len(hits))

\* what the store answers to a search for k documents under filt, ranking
\* being its documents in its order for the query: a filter that is neither
\* None nor a dict is rejected by the store
Answer(ranking, k, filt) ==
  IF filt = PyNone \/ filt.t = "dict"
  THEN [raised |-> "None", hits |-> FirstK(Filtered(ranking, filt), k)]
  ELSE [raised |-> "ValueError", hits |-> <<>>]

(* ----------------------------- search_documents ------------------------- *)

\* self.build_vector_store(): the inherited construction of the store, the
\* n-th of this instance
build_vector_store(n) == [t |-> "Chroma", v |-> n]

\* the search as the store received it
Sent(self, method, k, filt, answer) ==
  [self EXCEPT !.searches = Append(@, [method |-> method, k |-> k, filter |-> filt]),
               !.answered = answer.hits]

\* self.status = results; return results
ReturnResults(self, data) ==
  Ended([self EXCEPT !.status = PyList(data)], "search_documents", "None", PyList(data))

\* the Data of a hit in a search with scores
ScoredData(hit) ==
  [metadata |-> hit.doc.metadata, score |-> hit.score, text |-> hit.doc.page_content]

\* the Data of a hit in a search without scores
PlainData(hit) ==
  [metadata |-> hit.doc.metadata, text |-> hit.doc.page_content]

\* the loop over docs_and_scores that keeps every hit
RECURSIVE KeepScored_all(_, _)
KeepScored_all(hits, threshold) ==
  IF hits = <<>> THEN <<>>
  ELSE <<ScoredData(Head(hits))>> \o KeepScored_all(Tail(hits), threshold)

\* the loop over docs_and_scores
RECURSIVE KeepScored(_, _)
KeepScored(hits, threshold) ==
  IF hits = <<>> THEN <<>>
  ELSE IF Head(hits).score >= threshold
       THEN <<ScoredData(Head(hits))>> \o KeepScored(Tail(hits), threshold)
       ELSE KeepScored(Tail(hits), threshold)

\* the list comprehension over docs
PlainList(hits) == [i \in 1..Len(hits) |-> PlainData(hits[i])]

\* filt if filt else None
PassedFilter(filt) == IF Truthy(filt) THEN filt ELSE PyNone

\* float(self.simil_threshold or 0.0)
Threshold(value) == IF Truthy(value) THEN value.v ELSE 0

\* the branch mode == "Similarity with Score", answer being what
\* vs.similarity_search_with_relevance_scores returned or raised
SearchScored(self, threshold, answer) ==
  IF answer.raised # "None" THEN Ended(self, "search_documents", answer.raised, Nothing)
  ELSE ReturnResults(self, KeepScored(answer.hits, threshold))

\* the branch of "similarity" and "mmr", answer being what vs.search
\* returned or raised
SearchPlain(self, answer) ==
  IF answer.raised # "None" THEN Ended(self, "search_documents", answer.raised, Nothing)
  ELSE ReturnResults(self, PlainList(answer.hits))

\* the five self.log calls before the plain search
SearchLog(self, filt, threshold) ==
  [self EXCEPT !.log =
     (IF Truthy(filt) THEN <<[tag |-> "Filter", arg |-> filt]>> ELSE <<>>)
     \o <<[tag |-> "Search input", arg |-> self.search_query],
          [tag |-> "Search type", arg |-> self.search_type],
          [tag |-> "Number of results", arg |-> self.number_of_results],
          [tag |-> "Similarity threshold", arg |-> threshold]>>]

\* the statements from mode = self.search_type on; the store is a Chroma
\* store, which has the three search methods
Search(self, k, filt, threshold, ranking) ==
  IF self.search_type = "Similarity with Score"
  THEN SearchScored(Sent(self, "similarity_search_with_relevance_scores", k,
                         PassedFilter(filt), Answer(ranking, k, PassedFilter(filt))),
                    threshold, Answer(ranking, k, PassedFilter(filt)))
  ELSE SearchPlain(Sent(SearchLog(self, filt, threshold), "search", k,
                        PassedFilter(filt), Answer(ranking, k, PassedFilter(filt))),
                   Answer(ranking, k, PassedFilter(filt)))

\* the statements after the store is at hand; reading an attribute that
\* set_attributes never assigned is an AttributeError
Query(self, ranking) ==
  IF self.search_query = <<>>
  THEN Ended([self EXCEPT !.status = PyStr(<<>>)], "search_documents", "None", PyList(<<>>))
  ELSE IF self.advance_search_filter = Unset \/ self.simil_threshold = Unset
       THEN Ended(self, "search_documents", "AttributeError", Nothing)
       ELSE Search(self, self.number_of_results, self.advance_search_filter,
                   Threshold(self.simil_threshold), ranking)

\* a store built on every call
WithStore_rebuild(self) ==
  [self EXCEPT !.cached_vector_store = build_vector_store(self.builds + 1),
               !.builds = @ + 1, !.reused = FALSE]

\* the store at hand: the cached one, or a new one that is cached
WithStore(self) ==
  IF self.cached_vector_store # PyNone THEN [self EXCEPT !.reused = TRUE]
  ELSE [self EXCEPT !.cached_vector_store = build_vector_store(self.builds + 1),
                    !.builds = @ + 1, !.reused = FALSE]

\* search_documents(), ranking being the store's documents in its order for
\* the query
search_documents(self, ranking) == Query(WithStore(self), ranking)

(* ----------------------------- inputs and actions ----------------------- *)

\* the most pieces a search_filter text is made of
MaxFilter == 3

\* the pieces the search_filter texts are made of
FilterPieces ==
  {<<"{">>, <<"}">>, <<"[">>, <<"]">>, <<",">>, <<" ">>, <<"1">>,
   <<DoubleQuote, "a", DoubleQuote>>,
   <<DoubleQuote, "a", DoubleQuote, ":", "1">>,
   <<DoubleQuote, "a", DoubleQuote, ":", "2">>}

RECURSIVE FilterTextsUpTo(_)
FilterTextsUpTo(n) ==
  IF n = 0 THEN {<<>>}
  ELSE LET shorter == FilterTextsUpTo(n - 1)
       IN shorter \cup {piece \o rest : piece \in FilterPieces, rest \in shorter}

FilterTexts == FilterTextsUpTo(MaxFilter)

\* an object, an array, a malformed text and the empty text
FilterSample ==
  {<<"{", DoubleQuote, "a", DoubleQuote, ":", "1", "}">>, <<"[", "1", "]">>,
   <<"{">>, <<>>}

\* thresholds in tenths, and a cleared field
Thresholds == {PyFloat(0), PyFloat(5), PyFloat(9), PyNone}

SearchTypes == {"Similarity", "Similarity with Score", "MMR"}

Queries == {<<>>, <<"q">>}

\* the inputs every params dict carries
Bound(query, type, k) ==
  [search_query |-> query, search_type |-> type, number_of_results |-> k]

\* the same dict with or without the keys "search_filter" and
\* "sim_threshold"
WithOptional(base, filters, thresholds) ==
  {base}
  \cup {base @@ ("search_filter" :> f) : f \in filters}
  \cup {base @@ ("sim_threshold" :> th) : th \in thresholds}
  \cup {base @@ ("search_filter" :> f) @@ ("sim_threshold" :> th) :
          f \in filters, th \in thresholds}

\* the params dicts of a later build of the same component
AttributeSample ==
  UNION {WithOptional(Bound(q, type, MaxDocs), {<<"{", "}">>, <<"[", "1", "]">>},
                      {PyFloat(5)}) :
           q \in Queries, type \in SearchTypes}

\* the params dicts of the first build: every number of results, every
\* threshold and every filter text as well
AttributeSets ==
  AttributeSample
  \cup UNION {WithOptional(Bound(<<"q">>, type, k), FilterSample, Thresholds) :
                type \in SearchTypes, k \in 1..MaxDocs}
  \cup WithOptional(Bound(<<"q">>, "Similarity with Score", MaxDocs),
                    FilterTexts, {PyFloat(5)})

ScoredDocuments ==
  {Hit(Document("d1", 1), 8), Hit(Document("d2", 2), 5), Hit(Document("d3", 1), 3)}

\* what the store may rank for a query
Rankings == SeqsUpTo(ScoredDocuments, MaxDocs)

\* a component as the host constructs it, nothing bound yet
NewChroma ==
  [built |-> TRUE,
   search_query |-> <<>>, search_type |-> "Similarity", number_of_results |-> 1,
   advance_search_filter |-> Unset, simil_threshold |-> Unset,
   cached_vector_store |-> PyNone, status |-> Nothing, builds |-> 0,
   called |-> "none", raised |-> "None", ret |-> Nothing,
   log |-> <<>>, searches |-> <<>>, answered |-> <<>>,
   given |-> Bound(<<>>, "Similarity", 1), reused |-> FALSE]

InitChroma ==
  /\ ReplIdle
  /\ router = NotBuilt
  /\ chroma = NewChroma
  /\ parser = NotBuilt

\* the component at the start of a call: the record of the last call is
\* dropped
Begin(self) == [self EXCEPT !.log = <<>>, !.searches = <<>>, !.answered = <<>>]

\* the host binds the inputs of a build
SetAttributes ==
  /\ \E given \in (IF chroma.called = "none" THEN AttributeSets ELSE AttributeSample) :
       chroma' = set_attributes([Begin(chroma) EXCEPT !.given = given], given)
  /\ UNCHANGED <<repl_vars, router, parser>>

\* the host runs the search, directly or through as_dataframe
SearchDocuments ==
  /\ \E ranking \in Rankings :
       chroma' = search_documents(Begin(chroma), ranking)
  /\ UNCHANGED <<repl_vars, router, parser>>

NextChroma == SetAttributes \/ SearchDocuments

SpecChroma == InitChroma /\ [][NextChroma]_vars

Searched == chroma.called = "search_documents" /\ chroma.raised = "None"

\* the documents of the store's answer whose score reaches th, in its order
RECURSIVE AtOrAbove(_, _)
AtOrAbove(hits, th) ==
  IF hits = <<>> THEN <<>>
  ELSE IF Head(hits).score < th THEN AtOrAbove(Tail(hits), th)
       ELSE <<Head(hits)>> \o AtOrAbove(Tail(hits), th)

\* the configured threshold, a missing one counting as 0.0
Configured == IF chroma.simil_threshold = PyNone THEN 0 ELSE chroma.simil_threshold.v

\* C15: a 'Similarity with Score' search returns exactly the documents of
\* the store's answer whose relevance score is at or above the configured
\* threshold (0.0 when none is configured), in the store's order, each with
\* its score; a 'Similarity' or 'MMR' search returns every document of the
\* store's answer, whatever its score.
C15_Threshold ==
  (Searched /\ chroma.search_query # <<>>) =>
    IF chroma.search_type = "Similarity with Score"
    THEN /\ \A i \in 1..Len(chroma.ret.v) : chroma.ret.v[i].score >= Configured
         /\ Len(chroma.ret.v) = Len(AtOrAbove(chroma.answered, Configured))
         /\ \A i \in 1..Len(chroma.ret.v) :
              /\ chroma.ret.v[i].text = AtOrAbove(chroma.answered, Configured)[i].doc.page_content
              /\ chroma.ret.v[i].score = AtOrAbove(chroma.answered, Configured)[i].score
    ELSE /\ Len(chroma.ret.v) = Len(chroma.answered)
         /\ \A i \in 1..Len(chroma.ret.v) :
              chroma.ret.v[i].text = chroma.answered[i].doc.page_content

\* a search with scores whose answer holds a document below the threshold
\* and, after it, one exactly at the threshold: only the second is returned
C15_Witness ==
  /\ Searched
  /\ chroma.search_type = "Similarity with Score"
  /\ chroma.simil_threshold = PyFloat(5)
  /\ Len(chroma.answered) = 2
  /\ chroma.answered[1].score = 3 /\ chroma.answered[2].score = 5
  /\ Len(chroma.ret.v) = 1 /\ chroma.ret.v[1].score = 5

\* the search_filter text of the last set_attributes
RawFilter == Get(chroma.given, "search_filter", <<>>)

IsDictText(text) == json_loads(text).ok /\ json_loads(text).value.t = "dict"

\* C16: set_attributes raises ValueError for every non-empty search_filter
\* that is not the JSON text of a dictionary, stores the parsed dictionary
\* otherwise, and stores None when search_filter is empty or absent.
C16_DictOnly ==
  chroma.called = "set_attributes" =>
    IF RawFilter = <<>>
    THEN chroma.raised = "None" /\ chroma.advance_search_filter = PyNone
    ELSE IF IsDictText(RawFilter)
         THEN /\ chroma.raised = "None"
              /\ chroma.advance_search_filter = json_loads(RawFilter).value
         ELSE chroma.raised = "ValueError"

\* C20: search_documents builds a store only while none is cached and caches
\* it, so an instance builds at most one store and every later call finds
\* that store; a call with an empty search query returns an empty list with
\* status "" and sends no search to the store, the store being cached even so.
C20_OneBuild ==
  /\ chroma.builds <= 1
  /\ chroma.builds = 0 <=> chroma.cached_vector_store = PyNone
  /\ chroma.builds = 1 => chroma.cached_vector_store = build_vector_store(1)
  /\ chroma.called = "search_documents" => chroma.builds = 1
  /\ (chroma.called = "search_documents" /\ chroma.search_query = <<>>) =>
       /\ chroma.raised = "None"
       /\ chroma.ret = PyList(<<>>)
       /\ chroma.status = PyStr(<<>>)
       /\ chroma.searches = <<>>

\* a search with an empty query on an instance whose store was already cached
C20_Witness ==
  /\ chroma.built
  /\ chroma.called = "search_documents"
  /\ chroma.search_query = <<>>
  /\ chroma.reused
  /\ chroma.builds = 1

(* ======================================================================= *)
(* PromptParserComponent                                                   *)
(* (components/processing/letsai_promptparser.py).                         *)
(*                                                                         *)
(* The variable parser is one instance: its input message, and of its      *)
(* last call the method, the exception it raised and the value returned.   *)
(* ======================================================================= *)

\* the most pieces a message text is made of
MaxMessage == 3

\* the names the module binds at import time
ModuleNames == {"logger", "Component", "MessageInput", "Output", "Data", "Message"}

\* text.split(sep): the pieces of s between the separators, cur being the
\* piece read so far
RECURSIVE SplitOn(_, _, _)
SplitOn(s, sep, cur) ==
  IF s = <<>> THEN <<cur>>
  ELSE IF Head(s) = sep THEN <<cur>> \o SplitOn(Tail(s), sep, <<>>)
  ELSE SplitOn(Tail(s), sep, Append(cur, Head(s)))

\* sep.join(pieces)
RECURSIVE Join(_, _)
Join(pieces, sep) ==
  IF pieces = <<>> THEN <<>>
  ELSE IF Len(pieces) = 1 THEN pieces[1]
  ELSE pieces[1] \o <<sep>> \o Join(Tail(pieces), sep)

\* s.strip('"')
RECURSIVE StripQuotes(_)
StripQuotes(s) ==
  IF s # <<>> /\ Head(s) = DoubleQuote THEN StripQuotes(Tail(s))
  ELSE IF s # <<>> /\ s[Len(s)] = DoubleQuote THEN StripQuotes(SubSeq(s, 1, Len(s) - 1))
  ELSE s

\* [path.strip().strip('"') for path in pieces if path.strip()]
RECURSIVE Paths(_)
Paths(pieces) ==
  IF pieces = <<>> THEN <<>>
  ELSE IF Strip(Head(pieces)) # <<>>
       THEN <<StripQuotes(Strip(Head(pieces)))>> \o Paths(Tail(pieces))
       ELSE Paths(Tail(pieces))

\* the characters of a JSON string body
RECURSIVE JsonEscape(_)
JsonEscape(s) ==
  IF s = <<>> THEN <<>>
  ELSE IF Head(s) = DoubleQuote THEN <<"\\", DoubleQuote>> \o JsonEscape(Tail(s))
  ELSE <<Head(s)>> \o JsonEscape(Tail(s))

\* json.dumps({key: value}) of two strs
JsonDumps(key, value) ==
  <<"{", DoubleQuote>> \o JsonEscape(key) \o <<DoubleQuote, ":", " ", DoubleQuote>>
    \o JsonEscape(value) \o <<DoubleQuote, "}">>

\* Message(text=...)
TextMessage(text) == [t |-> "Message", text |-> text]

\* what a method of the parser ended with
ParserOutcome(raised, value) == [raised |-> raised, value |-> value]

\* get_prompt()
get_prompt(message) ==
  IF message.t = "Message"
  THEN ParserOutcome("None", PyStr(Strip(SplitOn(message.text, "|", <<>>)[1])))
  ELSE ParserOutcome("None", PyStr(<<"No prompt found">>))

\* Message(text=json.dumps({key: value})): the name json is looked up in the
\* module's globals when the expression is evaluated
DumpMessage(key, value) ==
  IF "json" \in ModuleNames THEN ParserOutcome("None", TextMessage(JsonDumps(key, value)))
  ELSE ParserOutcome("NameError", Nothing)

\* the if statement on paths
FirstPath(paths) ==
  IF paths # <<>> THEN DumpMessage(<<"path">>, paths[1])
  ELSE DumpMessage(<<"error">>, <<"No paths found">>)

\* get_paths()
get_paths(message) ==
  IF message.t = "Message"
  THEN FirstPath(Paths(SplitOn(Strip(Join(Tail(SplitOn(message.text, "|", <<>>)), "|")),
                               "|", <<>>)))
  ELSE DumpMessage(<<"error">>, <<"Invalid message">>)

MessagePieces == {<<"p">>, <<"|">>, <<" ">>, <<DoubleQuote>>, <<"a">>}

RECURSIVE MessageTextsUpTo(_)
MessageTextsUpTo(n) ==
  IF n = 0 THEN {<<>>}
  ELSE LET shorter == MessageTextsUpTo(n - 1)
       IN shorter \cup {piece \o rest : piece \in MessagePieces, rest \in shorter}

\* what the input may be bound to: a Message, or a value that is none
MessageInputs ==
  {TextMessage(text) : text \in MessageTextsUpTo(MaxMessage)}
    \cup {PyNone, PyStr(<<"p", "|", "a">>)}

InitParser ==
  /\ ReplIdle
  /\ router = NotBuilt
  /\ chroma = NotBuilt
  /\ \E message \in MessageInputs :
       parser = [built |-> TRUE, message |-> message, called |-> "none",
                 raised |-> "None", ret |-> Nothing]

\* the parser after method ended with outcome
ParserEnds(method, outcome) ==
  /\ parser' = [parser EXCEPT !.called = method, !.raised = outcome.raised,
                              !.ret = outcome.value]
  /\ UNCHANGED <<repl_vars, router, chroma>>

\* the host runs the method of output "prompt"
GetPrompt == ParserEnds("get_prompt", get_prompt(parser.message))

\* the host runs the method of output "path"
GetPaths == ParserEnds("get_paths", get_paths(parser.message))

NextParser == GetPrompt \/ GetPaths

SpecParser == InitParser /\ [][NextParser]_vars

\* the segments after the first '|' that are not blank
RECURSIVE NonBlank(_)
NonBlank(pieces) ==
  IF pieces = <<>> THEN <<>>
  ELSE IF Strip(Head(pieces)) = <<>> THEN NonBlank(Tail(pieces))
       ELSE <<Head(pieces)>> \o NonBlank(Tail(pieces))

Segments == NonBlank(Tail(SplitOn(parser.message.text, "|", <<>>)))

\* C17: neither method raises; for a Message, get_prompt returns the text
\* before the first '|' stripped, and get_paths a Message whose JSON text
\* holds under "path" the first non-blank segment after the first '|',
\* trimmed and without its surrounding double quotes, or the error
\* "No paths found" when there is none; for another input get_prompt
\* returns "No prompt found" and get_paths the error "Invalid message".
C17_PromptAndPath ==
  /\ parser.raised = "None"
  /\ parser.called = "get_prompt" =>
       parser.ret = IF parser.message.t = "Message"
                    THEN PyStr(Strip(SplitOn(parser.message.text, "|", <<>>)[1]))
                    ELSE PyStr(<<"No prompt found">>)
  /\ parser.called = "get_paths" =>
       parser.ret = IF parser.message.t # "Message"
                    THEN TextMessage(JsonDumps(<<"error">>, <<"Invalid message">>))
                    ELSE IF Segments = <<>>
                    THEN TextMessage(JsonDumps(<<"error">>, <<"No paths found">>))
                    ELSE TextMessage(JsonDumps(<<"path">>, StripQuotes(Strip(Segments[1]))))

====
